---- MODULE Spec2Model ----
(***************************************************************************)
(* A model of the airport route graph of src/main.py: the AirportsGraph     *)
(* class (add_vertex, add_edge, the traversals, the proximity queries,      *)
(* rank_airports and to_networkx) and the routes loop of                    *)
(* load_airports_graph.                                                     *)
(*                                                                          *)
(* Python dicts keep insertion order, and the traversals iterate over them, *)
(* so a vertex's `neighbours` dict is modelled as a sequence of             *)
(* [id, w] entries with distinct ids, in insertion order.                   *)
(*                                                                          *)
(* Coordinates are restricted to points on the equator with a whole number  *)
(* of degrees of longitude; there the haversine formula of                  *)
(* get_earth_distance reduces to round(r * |dlon| * pi / 180). The airports *)
(* lie on two meridians, LonGap degrees apart.                              *)
(***************************************************************************)
EXTENDS Integers, Sequences, FiniteSets, TLC

\* ------------------------------------------------------------------ bounds
NumIds == 3
LonGap == 1
NumCountries == 2
MaxGpi == 2
MaxEdges == 3
MaxBudgetSteps == 1
MaxSeeds == 2
MaxOut == 3

\* -------------------------------------------------------- program constants
EarthRadius == 6371

\* ------------------------------------------------------------ input sets
Ids == 1..NumIds
Lons == {0, LonGap}
Countries == 1..NumCountries
GPIs == 1..MaxGpi
\* The gap of the budgeted traversal needs one more airport and one more
\* route: the smallest graphs in which two routes of different length lead to
\* an airport that has a further neighbour.
GapIds == 1..(NumIds + 1)
GapMaxEdges == MaxEdges + 1
\* Distance budgets: a negative one, and whole multiples of the rounded length
\* of one degree of longitude (111 km); one multiple more for the traversal,
\* whose paths are longer than one route.
OneDegree == (EarthRadius * 31416 + 900000) \div 1800000
Budgets == {-1} \cup {OneDegree * k : k \in 0..MaxBudgetSteps}
DistBudgets == {-1} \cup {OneDegree * k : k \in 0..(MaxBudgetSteps + 1)}
OutSizes == 0..MaxOut
\* The scenario of three airports A, B, C on the equator, one degree of
\* longitude apart: airport i lies at i - 1 degrees (A is 1, B is 2, C is 3),
\* and the budgets asked for are 50, 150 and 250 km.
ScenarioLon(i) == i - 1
ScenarioBudgets == {50, 150, 250}
\* The values of to_networkx's max_vertices.
VertexLimits == 0..NumIds
\* The non-empty lists of at most MaxSeeds different ids, in ascending order.
SeedLists ==
    {l \in UNION {[1..n -> Ids] : n \in 1..MaxSeeds} :
        \A i, j \in 1..Len(l) : i < j => l[i] < l[j]}
\* The lists of ids without repetition: the orders in which a set of candidate
\* ids can be iterated over.
CandidateLists ==
    {l \in UNION {[1..n -> Ids] : n \in 0..NumIds} :
        \A i, j \in 1..Len(l) : i # j => l[i] # l[j]}

VARIABLES
    vertices,   \* AirportsGraph._vertices: airport id -> _AirportVertex
    ret,        \* the last call: its name, and what it returned or raised
    run         \* the traversal that is being run step by step: its call, the
                \* set it fills and its stack of run; Idle when none is

vars == <<vertices, ret, run>>

Idle == [op |-> "none"]

\* Body(v), with v evaluated once.
With(v, Body(_)) == CHOOSE r \in {Body(x) : x \in {v}} : TRUE

\* ------------------------------------------------------- dict helpers
\* The keys of a neighbours dict, as a set.
Keys(d) == {d[i].id : i \in 1..Len(d)}

\* d[k] for a key of the dict.
Lookup(d, k) == (CHOOSE i \in 1..Len(d) : d[i].id = k)

\* d[k] = w: a present key keeps its position and takes the new value, a new
\* key is appended.
DictSet(d, k, w) ==
    IF k \in Keys(d)
    THEN [i \in 1..Len(d) |-> IF d[i].id = k THEN [id |-> k, w |-> w] ELSE d[i]]
    ELSE Append(d, [id |-> k, w |-> w])

\* ------------------------------------------------------- the vertex
\* _AirportVertex.__init__: the neighbours dict starts empty.
AirportVertex(lon, country, gpi) ==
    [lon |-> lon, country |-> country, gpi |-> gpi, neighbours |-> <<>>]

\* _AirportVertex.get_degree
get_degree(v) == Len(v.neighbours)

Abs(x) == IF x < 0 THEN -x ELSE x

\* A slip get_earth_distance could have: the radius of the earth in miles.
get_earth_distance_miles(vs, id1, id2) ==
    (3959 * Abs(vs[id2].lon - vs[id1].lon) * 31416 + 900000) \div 1800000

\* get_earth_distance on equatorial points: int(round(c * r, 0)) with
\* c = |dlon| * pi / 180 in radians (pi taken as 3.1416).
get_earth_distance(vs, id1, id2) ==
    (EarthRadius * Abs(vs[id2].lon - vs[id1].lon) * 31416 + 900000) \div 1800000

\* The number of entries over all the neighbours dicts (a bound of the model).
NumEntries(vs) ==
    LET RECURSIVE Sum(_)
        Sum(S) == IF S = {} THEN 0
                  ELSE LET x == CHOOSE y \in S : TRUE
                       IN Len(vs[x].neighbours) + Sum(S \ {x})
    IN Sum(DOMAIN vs)

\* ------------------------------------------------------- construction
Init ==
    /\ vertices = <<>>
    /\ ret = [op |-> "init", raised |-> "none"]
    /\ run = Idle

\* add_vertex: a present id is ignored (first insertion wins).
add_vertex(vs, airport_id, lon, country, gpi) ==
    IF airport_id \notin DOMAIN vs
    THEN [i \in DOMAIN vs \cup {airport_id} |->
            IF i = airport_id THEN AirportVertex(lon, country, gpi) ELSE vs[i]]
    ELSE vs

AddVertex(airport_id, lon, country, gpi) ==
    /\ vertices' = add_vertex(vertices, airport_id, lon, country, gpi)
    /\ ret' = [op |-> "add_vertex", raised |-> "none"]
    /\ UNCHANGED run

\* A slip add_edge could have: the reverse edge is not stored.
add_edge_no_reverse(vs, source_id, destination_id) ==
    IF \/ source_id \in Keys(vs[destination_id].neighbours)
       \/ destination_id \in Keys(vs[source_id].neighbours)
    THEN vs
    ELSE [vs EXCEPT ![source_id].neighbours =
            DictSet(@, destination_id,
                    get_earth_distance(vs, source_id, destination_id))]

\* add_edge, when both ids are present: nothing when either vertex lists the
\* other, else the distance is stored on the source and then on the destination.
add_edge(vs, source_id, destination_id) ==
    IF \/ source_id \in Keys(vs[destination_id].neighbours)
       \/ destination_id \in Keys(vs[source_id].neighbours)
    THEN vs
    ELSE LET distance == get_earth_distance(vs, source_id, destination_id)
             vs1 == [vs EXCEPT ![source_id].neighbours =
                        DictSet(@, destination_id, distance)]
         IN [vs1 EXCEPT ![destination_id].neighbours =
                        DictSet(@, source_id, distance)]

\* A slip AddEdge could have: a route that is already there is an error.
AddEdge_duplicate_raises(source_id, destination_id) ==
    /\ IF /\ source_id \in DOMAIN vertices
          /\ destination_id \in DOMAIN vertices
          /\ destination_id \notin Keys(vertices[source_id].neighbours)
       THEN /\ vertices' = add_edge(vertices, source_id, destination_id)
            /\ ret' = [op |-> "add_edge", source |-> source_id,
                       destination |-> destination_id, raised |-> "none"]
       ELSE /\ UNCHANGED vertices
            /\ ret' = [op |-> "add_edge", source |-> source_id,
                       destination |-> destination_id, raised |-> "KeyError"]
    /\ UNCHANGED run

\* A slip AddEdge could have: the source's entry is written before the
\* destination is looked up, so a call that raises leaves half a route behind.
AddEdge_raises_late(source_id, destination_id) ==
    /\ IF source_id \in DOMAIN vertices /\ destination_id \in DOMAIN vertices
       THEN /\ vertices' = add_edge(vertices, source_id, destination_id)
            /\ ret' = [op |-> "add_edge", source |-> source_id,
                       destination |-> destination_id, raised |-> "none"]
       ELSE /\ vertices' = IF source_id \in DOMAIN vertices
                           THEN [vertices EXCEPT ![source_id].neighbours =
                                    DictSet(@, destination_id, 0)]
                           ELSE vertices
            /\ ret' = [op |-> "add_edge", source |-> source_id,
                       destination |-> destination_id, raised |-> "KeyError"]
    /\ UNCHANGED run

\* add_edge called: KeyError, and nothing written, unless both ids are present.
AddEdge(source_id, destination_id) ==
    /\ IF source_id \in DOMAIN vertices /\ destination_id \in DOMAIN vertices
       THEN /\ vertices' = add_edge(vertices, source_id, destination_id)
            /\ ret' = [op |-> "add_edge", source |-> source_id,
                       destination |-> destination_id, raised |-> "none"]
       ELSE /\ UNCHANGED vertices
            /\ ret' = [op |-> "add_edge", source |-> source_id,
                       destination |-> destination_id, raised |-> "KeyError"]
    /\ UNCHANGED run

\* load_airports_graph, one row of the routes dataframe: add_edge is called
\* only when the graph contains both ids, so its KeyError cannot come up; any
\* other row is passed over.
LoadRoute(source_airport_id, destination_airport_id) ==
    /\ IF /\ source_airport_id \in DOMAIN vertices
          /\ destination_airport_id \in DOMAIN vertices
       THEN vertices' = add_edge(vertices, source_airport_id, destination_airport_id)
       ELSE UNCHANGED vertices
    /\ ret' = [op |-> "load_route", source |-> source_airport_id,
               destination |-> destination_airport_id, raised |-> "none"]
    /\ UNCHANGED run

\* ------------------------------------------------------- queries
\* The elements of a set of ids in ascending order: the order in which CPython
\* iterates over a set of small non-negative ints (get_neighbours returns a
\* set, and is_connected iterates over it).
RECURSIVE SetToSeq(_)
SetToSeq(S) ==
    IF S = {} THEN <<>>
    ELSE LET m == CHOOSE x \in S : \A y \in S : x <= y
         IN <<m>> \o SetToSeq(S \ {m})

\* get_neighbours, for a present id (an absent id raises ValueError).
get_neighbours(vs, airport_id) == Keys(vs[airport_id].neighbours)

\* A slip is_connected could have: the answer of the first unvisited neighbour
\* is returned, and the other neighbours are never tried.
RECURSIVE is_connected_first_neighbour(_, _, _, _)
is_connected_first_neighbour(vs, source_id, destination_id, visited) ==
    IF source_id = destination_id
    THEN [raised |-> "none", value |-> TRUE, visited |-> visited]
    ELSE IF source_id \notin DOMAIN vs
    THEN [raised |-> "ValueError", value |-> FALSE,
          visited |-> visited \cup {source_id}]
    ELSE LET RECURSIVE Loop(_, _)
             Loop(ns, vis) ==
                IF ns = <<>>
                THEN [raised |-> "none", value |-> FALSE, visited |-> vis]
                ELSE IF Head(ns) \notin vis
                THEN is_connected_first_neighbour(vs, Head(ns), destination_id, vis)
                ELSE Loop(Tail(ns), vis)
         IN Loop(SetToSeq(get_neighbours(vs, source_id)), visited \cup {source_id})

\* is_connected: [raised, value, visited], visited being the caller's set
\* after the call (the set is shared by the whole recursion).
RECURSIVE is_connected(_, _, _, _)
is_connected(vs, source_id, destination_id, visited) ==
    IF source_id = destination_id
    THEN [raised |-> "none", value |-> TRUE, visited |-> visited]
    ELSE IF source_id \notin DOMAIN vs
    THEN [raised |-> "ValueError", value |-> FALSE,
          visited |-> visited \cup {source_id}]
    ELSE LET RECURSIVE Loop(_, _)
             Loop(ns, vis) ==
                IF ns = <<>>
                THEN [raised |-> "none", value |-> FALSE, visited |-> vis]
                ELSE IF Head(ns) \notin vis
                THEN With(is_connected(vs, Head(ns), destination_id, vis),
                          LAMBDA r : IF r.raised # "none" \/ r.value
                                     THEN r
                                     ELSE Loop(Tail(ns), r.visited))
                ELSE Loop(Tail(ns), vis)
         IN Loop(SetToSeq(get_neighbours(vs, source_id)), visited \cup {source_id})

\* get_distance, for present ids: the stored weight, 0 when not adjacent.
get_distance(vs, id1, id2) ==
    IF id2 \in Keys(vs[id1].neighbours)
    THEN vs[id1].neighbours[Lookup(vs[id1].neighbours, id2)].w
    ELSE 0

\* A slip get_neighbour_within_dist could have: the comparison the wrong way
\* round.
get_neighbour_beyond_dist(vs, airport_id, max_distance) ==
    LET ns == vs[airport_id].neighbours
    IN {ns[i].id : i \in {j \in 1..Len(ns) : ns[j].w >= max_distance}}

\* get_neighbour_within_dist, for a present id.
get_neighbour_within_dist(vs, airport_id, max_distance) ==
    LET ns == vs[airport_id].neighbours
    IN {ns[i].id : i \in {j \in 1..Len(ns) : ns[j].w <= max_distance}}

\* A slip dfs_for_distance could have: the budget is passed on whole, the
\* weight of the edge taken is not subtracted.
RECURSIVE dfs_for_distance_whole_budget(_, _, _, _)
dfs_for_distance_whole_budget(vs, airport_id, max_distance, airports_in_dist) ==
    IF max_distance < 0 \/ airport_id \in airports_in_dist
    THEN airports_in_dist
    ELSE LET RECURSIVE Loop(_, _)
             Loop(ns, acc) ==
                IF ns = <<>> THEN acc
                ELSE Loop(Tail(ns),
                          dfs_for_distance_whole_budget(vs, Head(ns).id,
                                                        max_distance, acc))
         IN Loop(vs[airport_id].neighbours, airports_in_dist \cup {airport_id})

\* dfs_for_distance: the set airports_in_dist after the call.
RECURSIVE dfs_for_distance(_, _, _, _)
dfs_for_distance(vs, airport_id, max_distance, airports_in_dist) ==
    IF max_distance < 0 \/ airport_id \in airports_in_dist
    THEN airports_in_dist
    ELSE LET RECURSIVE Loop(_, _)
             Loop(ns, acc) ==
                IF ns = <<>> THEN acc
                ELSE Loop(Tail(ns),
                          dfs_for_distance(vs, Head(ns).id,
                                           max_distance - Head(ns).w, acc))
         IN Loop(vs[airport_id].neighbours, airports_in_dist \cup {airport_id})

\* get_connected_within_dist: an absent id gives the empty set.
get_connected_within_dist(vs, airport_id, max_distance) ==
    IF airport_id \notin DOMAIN vs
    THEN {}
    ELSE dfs_for_distance(vs, airport_id, max_distance, {})

\* get_close_airports_adjacent, for a non-empty list of present ids.
get_close_airports_adjacent(vs, airport_ids, max_distance) ==
    LET RECURSIVE Loop(_, _)
        Loop(rest, close_airports) ==
            IF rest = <<>> THEN close_airports
            ELSE Loop(Tail(rest),
                      close_airports \cap
                        get_neighbour_within_dist(vs, Head(rest), max_distance))
    IN Loop(Tail(airport_ids),
            get_neighbour_within_dist(vs, airport_ids[1], max_distance))

\* get_close_airports_connected, for a non-empty list of ids.
get_close_airports_connected(vs, airport_ids, max_distance) ==
    LET RECURSIVE Loop(_, _)
        Loop(rest, close_airports) ==
            IF rest = <<>> THEN close_airports
            ELSE Loop(Tail(rest),
                      close_airports \cap
                        get_connected_within_dist(vs, Head(rest), max_distance))
    IN Loop(Tail(airport_ids),
            get_connected_within_dist(vs, airport_ids[1], max_distance))

\* ------------------------------------------------------- to_networkx
\* nx.Graph.add_edge: the edge between two nodes is undirected and holds one
\* weight, the last one given.
nx_add_edge(edges, v, u, distance) ==
    {e \in edges : e.ends # {v, u}} \cup {[ends |-> {v, u}, weight |-> distance]}

\* The orders in which the ids can have been inserted into _vertices.
VertexOrders(vs) ==
    {l \in [1..Cardinality(DOMAIN vs) -> DOMAIN vs] :
        \A i, j \in 1..Len(l) : i # j => l[i] # l[j]}

\* to_networkx, `order` being the keys of _vertices in insertion order:
\* [nodes, edges]. The airports have different names, so a node is named by
\* its airport's id here.
to_networkx(vs, order, max_vertices) ==
    LET RECURSIVE Inner(_, _, _)
        \* for u in v.neighbours
        Inner(v, ns, g) ==
            IF ns = <<>> THEN g
            ELSE With(IF Cardinality(g.nodes) < max_vertices
                      THEN g.nodes \cup {Head(ns).id} ELSE g.nodes,
                      LAMBDA nodes :
                        With([nodes |-> nodes,
                              edges |-> IF Head(ns).id \in nodes
                                        THEN nx_add_edge(g.edges, v, Head(ns).id,
                                                         Head(ns).w)
                                        ELSE g.edges],
                             LAMBDA g1 : Inner(v, Tail(ns), g1)))
        RECURSIVE Outer(_, _)
        \* for v in self._vertices.values()
        Outer(rest, g) ==
            IF rest = <<>> THEN g
            ELSE With(Inner(Head(rest), vs[Head(rest)].neighbours,
                            [g EXCEPT !.nodes = @ \cup {Head(rest)}]),
                      LAMBDA g1 : IF Cardinality(g1.nodes) >= max_vertices
                                  THEN g1
                                  ELSE Outer(Tail(rest), g1))
    IN Outer(order, [nodes |-> {}, edges |-> {}])

\* ------------------------------------------------------- ranking
Min(a, b) == IF a < b THEN a ELSE b

\* l[:k] for k >= 0.
Take(l, k) == SubSeq(l, 1, Min(k, Len(l)))

\* sorted(l, key=...): keys[i] is the key of l[i]; ascending and stable, an
\* element goes after those of a smaller key and those of its own key that
\* come before it in l.
StableSort(l, keys) ==
    With(keys, LAMBDA ks :
        LET Pos(i) == 1 + Cardinality({j \in 1..Len(l) :
                            ks[j] < ks[i] \/ (ks[j] = ks[i] /\ j < i)})
        IN [p \in 1..Len(l) |-> l[CHOOSE i \in 1..Len(l) : Pos(i) = p]])

\* sorted(l, key=get_degree, reverse=True): descending, and still stable.
SortedByDegree(vs, l) ==
    StableSort(l, [i \in 1..Len(l) |-> 0 - get_degree(vs[l[i]])])

\* The keys of the dict `countries` after the first loop: the countries of the
\* candidates, in the order in which they are first met.
RECURSIVE CountryKeys(_, _)
CountryKeys(vs, airport_ids) ==
    IF airport_ids = <<>> THEN <<>>
    ELSE LET init == CountryKeys(vs, SubSeq(airport_ids, 1, Len(airport_ids) - 1))
             c == vs[airport_ids[Len(airport_ids)]].country
         IN IF \E i \in 1..Len(init) : init[i] = c THEN init ELSE Append(init, c)

\* countries[country] after the first loop: the candidates of that country,
\* in the order met.
CountryGroup(vs, airport_ids, country) ==
    SelectSeq(airport_ids, LAMBDA a : vs[a].country = country)

\* countries[country] after the second loop, which sorts the whole of
\* airport_ids and not the country's own list.
CountryRanked(vs, airport_ids, country, max_out_size) ==
    Take(SortedByDegree(vs, airport_ids), max_out_size)

RECURSIVE Concat(_)
Concat(ls) == IF ls = <<>> THEN <<>> ELSE Head(ls) \o Concat(Tail(ls))

\* rank_airports, airport_ids in the order the set is iterated over:
\* [raised, value].
\* The third loop and the return: the countries sorted by the index of the
\* first airport of their list (IndexError on an empty list), the lists
\* concatenated, the result cut.
MergeRanked(vs, countries, max_out_size) ==
    IF \E i \in 1..Len(countries) : countries[i] = <<>>
    THEN [raised |-> "IndexError", value |-> <<>>]
    ELSE LET ordered == StableSort(countries,
                            [i \in 1..Len(countries) |-> vs[countries[i][1]].gpi])
         IN [raised |-> "none", value |-> Take(Concat(ordered), max_out_size)]

\* rank_airports, airport_ids in the order the set is iterated over:
\* [raised, value]. `countries` holds the dict's values, in key order.
rank_airports(vs, airport_ids, max_out_size) ==
    IF \E i \in 1..Len(airport_ids) : airport_ids[i] \notin DOMAIN vs
    THEN [raised |-> "KeyError", value |-> <<>>]
    ELSE LET keys == CountryKeys(vs, airport_ids)
         IN With([i \in 1..Len(keys) |->
                    CountryRanked(vs, airport_ids, keys[i], max_out_size)],
                 LAMBDA countries : MergeRanked(vs, countries, max_out_size))

\* ------------------------------------------------------- query calls
IsConnected(source_id, destination_id) ==
    LET r == is_connected(vertices, source_id, destination_id, {})
    IN /\ ret' = [op |-> "is_connected", source |-> source_id,
                  destination |-> destination_id,
                  raised |-> r.raised, value |-> r.value]
       /\ UNCHANGED <<vertices, run>>

GetConnectedWithinDist(airport_id, max_distance) ==
    /\ ret' = [op |-> "get_connected_within_dist", source |-> airport_id,
               max_distance |-> max_distance, raised |-> "none",
               value |-> get_connected_within_dist(vertices, airport_id, max_distance)]
    /\ UNCHANGED <<vertices, run>>

\* self._vertices[airport_id] raises KeyError for the first absent seed.
GetCloseAirportsAdjacent(airport_ids, max_distance) ==
    /\ ret' = IF \E i \in 1..Len(airport_ids) : airport_ids[i] \notin DOMAIN vertices
              THEN [op |-> "get_close_airports_adjacent", seeds |-> airport_ids,
                    max_distance |-> max_distance, raised |-> "KeyError", value |-> {}]
              ELSE [op |-> "get_close_airports_adjacent", seeds |-> airport_ids,
                    max_distance |-> max_distance, raised |-> "none",
                    value |-> get_close_airports_adjacent(vertices, airport_ids,
                                                          max_distance)]
    /\ UNCHANGED <<vertices, run>>

GetCloseAirportsConnected(airport_ids, max_distance) ==
    /\ ret' = [op |-> "get_close_airports_connected", seeds |-> airport_ids,
               max_distance |-> max_distance, raised |-> "none",
               value |-> get_close_airports_connected(vertices, airport_ids,
                                                      max_distance)]
    /\ UNCHANGED <<vertices, run>>

RankAirports(airport_ids, max_out_size) ==
    LET r == rank_airports(vertices, airport_ids, max_out_size)
    IN /\ ret' = [op |-> "rank_airports", candidates |-> airport_ids,
                  max_out_size |-> max_out_size,
                  raised |-> r.raised, value |-> r.value]
       /\ UNCHANGED <<vertices, run>>

GetNeighbours(airport_id) ==
    /\ ret' = IF airport_id \in DOMAIN vertices
              THEN [op |-> "get_neighbours", source |-> airport_id,
                    raised |-> "none", value |-> get_neighbours(vertices, airport_id)]
              ELSE [op |-> "get_neighbours", source |-> airport_id,
                    raised |-> "ValueError", value |-> {}]
    /\ UNCHANGED <<vertices, run>>

\* A slip GetDistance could have: v1.neighbours.setdefault(v2, 0) for
\* v1.neighbours.get(v2, 0), which stores the default it returns.
GetDistance_setdefault(id1, id2) ==
    /\ ret' = IF id1 \in DOMAIN vertices /\ id2 \in DOMAIN vertices
              THEN [op |-> "get_distance", source |-> id1, destination |-> id2,
                    raised |-> "none", value |-> get_distance(vertices, id1, id2)]
              ELSE [op |-> "get_distance", source |-> id1, destination |-> id2,
                    raised |-> "ValueError", value |-> 0]
    /\ vertices' = IF /\ id1 \in DOMAIN vertices /\ id2 \in DOMAIN vertices
                      /\ id2 \notin Keys(vertices[id1].neighbours)
                   THEN [vertices EXCEPT ![id1].neighbours = DictSet(@, id2, 0)]
                   ELSE vertices
    /\ UNCHANGED run

\* get_distance called: ValueError unless both ids are present.
GetDistance(id1, id2) ==
    /\ ret' = IF id1 \in DOMAIN vertices /\ id2 \in DOMAIN vertices
              THEN [op |-> "get_distance", source |-> id1, destination |-> id2,
                    raised |-> "none", value |-> get_distance(vertices, id1, id2)]
              ELSE [op |-> "get_distance", source |-> id1, destination |-> id2,
                    raised |-> "ValueError", value |-> 0]
    /\ UNCHANGED <<vertices, run>>

\* get_neighbour_within_dist called: self._vertices[airport_id] raises KeyError
\* for an absent id.
GetNeighbourWithinDist(airport_id, max_distance) ==
    /\ ret' = IF airport_id \in DOMAIN vertices
              THEN [op |-> "get_neighbour_within_dist", source |-> airport_id,
                    max_distance |-> max_distance, raised |-> "none",
                    value |-> get_neighbour_within_dist(vertices, airport_id,
                                                        max_distance)]
              ELSE [op |-> "get_neighbour_within_dist", source |-> airport_id,
                    max_distance |-> max_distance, raised |-> "KeyError",
                    value |-> {}]
    /\ UNCHANGED <<vertices, run>>

\* to_networkx called. _vertices is modelled as a function of the id; the
\* order of its keys is drawn here from the orders add_vertex can have
\* produced, which are all of them, whatever the routes.
ToNetworkx(order, max_vertices) ==
    /\ order \in VertexOrders(vertices)
    /\ ret' = [op |-> "to_networkx", order |-> order,
               max_vertices |-> max_vertices, raised |-> "none",
               value |-> to_networkx(vertices, order, max_vertices)]
    /\ UNCHANGED <<vertices, run>>

\* ------------------------------------------------------- traversals, by steps
\* The two recursive traversals again, one step of the interpreter at a time.
\* A frame is a call of the recursive method: its airport id, whether it is at
\* its first line ("entry") or in its for loop ("loop"), and what the loop
\* has still to iterate over. The innermost frame is the first of the stack.

\* is_connected(source_id, destination_id, set()) is called.
StartIsConnected(source_id, destination_id) ==
    /\ run = Idle
    /\ run' = [op |-> "is_connected", source |-> source_id,
               destination |-> destination_id, visited |-> {},
               stack |-> <<[id |-> source_id, pc |-> "entry", todo |-> <<>>]>>,
               returned |-> "no"]
    /\ ret' = [op |-> "running", raised |-> "none"]
    /\ UNCHANGED vertices

\* A slip the loop of is_connected could have: a neighbour that is in visited
\* is looked at again instead of passed over.
StepIsConnected_stuck ==
    /\ run.op = "is_connected"
    /\ IF run.stack = <<>>
       THEN /\ ret' = [op |-> "is_connected", source |-> run.source,
                       destination |-> run.destination,
                       raised |-> IF run.returned = "ValueError"
                                  THEN "ValueError" ELSE "none",
                       value |-> run.returned = "True"]
            /\ run' = Idle
       ELSE /\ UNCHANGED ret
            /\ LET top == Head(run.stack)
                   rest == Tail(run.stack)
               IN run' =
                    IF run.returned = "False"
                    THEN [run EXCEPT !.returned = "no"]
                    ELSE IF run.returned # "no"
                    THEN [run EXCEPT !.stack = rest]
                    ELSE IF top.pc = "entry"
                    THEN IF top.id = run.destination
                         THEN [run EXCEPT !.stack = rest, !.returned = "True"]
                         ELSE IF top.id \notin DOMAIN vertices
                         THEN [run EXCEPT !.visited = @ \cup {top.id},
                                          !.stack = rest,
                                          !.returned = "ValueError"]
                         ELSE [run EXCEPT !.visited = @ \cup {top.id},
                                          !.stack = <<[id |-> top.id, pc |-> "loop",
                                                       todo |-> SetToSeq(
                                                         get_neighbours(vertices, top.id))]>>
                                                    \o rest]
                    ELSE IF top.todo = <<>>
                    THEN [run EXCEPT !.stack = rest, !.returned = "False"]
                    ELSE IF Head(top.todo) \notin run.visited
                    THEN [run EXCEPT !.stack =
                            <<[id |-> Head(top.todo), pc |-> "entry", todo |-> <<>>],
                              [top EXCEPT !.todo = Tail(@)]>> \o rest]
                    ELSE run
    /\ UNCHANGED vertices

\* One step of the running is_connected call:
\*  - no frame is left: the call returns to its caller, or raises;
\*  - a call below has returned False: the loop of the innermost frame goes on;
\*  - it has returned True or raised: the innermost frame does the same;
\*  - at "entry": True when the id is the destination; else the id goes into
\*    visited and get_neighbours is called, which raises for an absent id;
\*  - in the loop: False when nothing is left to iterate over; else the next
\*    neighbour is taken, and is_connected called on it unless it is in visited.
StepIsConnected ==
    /\ run.op = "is_connected"
    /\ IF run.stack = <<>>
       THEN /\ ret' = [op |-> "is_connected", source |-> run.source,
                       destination |-> run.destination,
                       raised |-> IF run.returned = "ValueError"
                                  THEN "ValueError" ELSE "none",
                       value |-> run.returned = "True"]
            /\ run' = Idle
       ELSE /\ UNCHANGED ret
            /\ LET top == Head(run.stack)
                   rest == Tail(run.stack)
               IN run' =
                    IF run.returned = "False"
                    THEN [run EXCEPT !.returned = "no"]
                    ELSE IF run.returned # "no"
                    THEN [run EXCEPT !.stack = rest]
                    ELSE IF top.pc = "entry"
                    THEN IF top.id = run.destination
                         THEN [run EXCEPT !.stack = rest, !.returned = "True"]
                         ELSE IF top.id \notin DOMAIN vertices
                         THEN [run EXCEPT !.visited = @ \cup {top.id},
                                          !.stack = rest,
                                          !.returned = "ValueError"]
                         ELSE [run EXCEPT !.visited = @ \cup {top.id},
                                          !.stack = <<[id |-> top.id, pc |-> "loop",
                                                       todo |-> SetToSeq(
                                                         get_neighbours(vertices, top.id))]>>
                                                    \o rest]
                    ELSE IF top.todo = <<>>
                    THEN [run EXCEPT !.stack = rest, !.returned = "False"]
                    ELSE IF Head(top.todo) \notin run.visited
                    THEN [run EXCEPT !.stack =
                            <<[id |-> Head(top.todo), pc |-> "entry", todo |-> <<>>],
                              [top EXCEPT !.todo = Tail(@)]>> \o rest]
                    ELSE [run EXCEPT !.stack = <<[top EXCEPT !.todo = Tail(@)]>> \o rest]
    /\ UNCHANGED vertices

\* get_connected_within_dist(airport_id, max_distance) is called: for a present
\* id it calls dfs_for_distance on an empty set, for an absent one it has
\* nothing to call.
StartConnectedWithinDist(airport_id, max_distance) ==
    /\ run = Idle
    /\ run' = [op |-> "get_connected_within_dist", source |-> airport_id,
               max_distance |-> max_distance, visited |-> {},
               stack |-> IF airport_id \in DOMAIN vertices
                         THEN <<[id |-> airport_id, budget |-> max_distance,
                                 pc |-> "entry", todo |-> <<>>]>>
                         ELSE <<>>]
    /\ ret' = [op |-> "running", raised |-> "none"]
    /\ UNCHANGED vertices

\* One step of the running get_connected_within_dist call:
\*  - no frame is left: the set is returned;
\*  - at "entry": dfs_for_distance returns when its budget is negative or its
\*    id is in the set; else the id goes into the set;
\*  - in the loop: it returns when nothing is left to iterate over; else it
\*    calls itself on the next neighbour with the budget less the weight.
StepConnectedWithinDist ==
    /\ run.op = "get_connected_within_dist"
    /\ IF run.stack = <<>>
       THEN /\ ret' = [op |-> "get_connected_within_dist", source |-> run.source,
                       max_distance |-> run.max_distance, raised |-> "none",
                       value |-> run.visited]
            /\ run' = Idle
       ELSE /\ UNCHANGED ret
            /\ LET top == Head(run.stack)
                   rest == Tail(run.stack)
               IN run' =
                    IF top.pc = "entry"
                    THEN IF top.budget < 0 \/ top.id \in run.visited
                         THEN [run EXCEPT !.stack = rest]
                         ELSE [run EXCEPT !.visited = @ \cup {top.id},
                                          !.stack = <<[top EXCEPT !.pc = "loop",
                                                        !.todo = vertices[top.id].neighbours]>>
                                                    \o rest]
                    ELSE IF top.todo = <<>>
                    THEN [run EXCEPT !.stack = rest]
                    ELSE [run EXCEPT !.stack =
                            <<[id |-> Head(top.todo).id,
                               budget |-> top.budget - Head(top.todo).w,
                               pc |-> "entry", todo |-> <<>>],
                              [top EXCEPT !.todo = Tail(@)]>> \o rest]
    /\ UNCHANGED vertices

\* ------------------------------------------------------- specifications
\* The model adds a route only while the graph holds fewer than `cap` of them.
EdgeRoom(source_id, destination_id, cap) ==
    IF source_id \in DOMAIN vertices /\ destination_id \in DOMAIN vertices
    THEN NumEntries(add_edge(vertices, source_id, destination_id)) <= 2 * cap
    ELSE TRUE

\* load_data gives every airport of a country that country's index.
SameScore(country, gpi) ==
    \A i \in DOMAIN vertices : vertices[i].country = country => vertices[i].gpi = gpi

\* Construction alone, add_edge(x, x) included.
Next ==
    \/ \E i \in Ids, lon \in Lons : AddVertex(i, lon, 1, 1)
    \/ \E s \in Ids, d \in Ids : EdgeRoom(s, d, MaxEdges) /\ AddEdge(s, d)

Spec == Init /\ [][Next]_vars

\* In the specifications below the routes respect add_edge's precondition
\* source_id != destination_id.

\* Construction within the precondition.
NextRoutes ==
    \/ \E i \in Ids, lon \in Lons : AddVertex(i, lon, 1, 1)
    \/ \E s \in Ids : \E d \in Ids \ {s} : EdgeRoom(s, d, MaxEdges) /\ AddEdge(s, d)

SpecRoutes == Init /\ [][NextRoutes]_vars

\* Construction by direct calls and by the loader. (The loader adds every
\* airport before the first route; the rows are taken here in any order,
\* which gives it more rows with an unknown endpoint, not fewer.)
NextLoad ==
    \/ \E i \in Ids, lon \in Lons : AddVertex(i, lon, 1, 1)
    \/ \E s \in Ids : \E d \in Ids \ {s} : EdgeRoom(s, d, MaxEdges) /\ AddEdge(s, d)
    \/ \E s \in Ids : \E d \in Ids \ {s} : EdgeRoom(s, d, MaxEdges) /\ LoadRoute(s, d)

SpecLoad == Init /\ [][NextLoad]_vars

\* Construction and the connectivity test.
NextConn ==
    \/ \E i \in Ids, lon \in Lons : AddVertex(i, lon, 1, 1)
    \/ \E s \in Ids : \E d \in Ids \ {s} : EdgeRoom(s, d, MaxEdges) /\ AddEdge(s, d)
    \/ \E s \in Ids, d \in Ids : IsConnected(s, d)

SpecConn == Init /\ [][NextConn]_vars

\* Construction and the adjacent-close query.
NextAdj ==
    \/ \E i \in Ids, lon \in Lons : AddVertex(i, lon, 1, 1)
    \/ \E s \in Ids : \E d \in Ids \ {s} : EdgeRoom(s, d, MaxEdges) /\ AddEdge(s, d)
    \/ \E l \in SeedLists, m \in Budgets : GetCloseAirportsAdjacent(l, m)

SpecAdj == Init /\ [][NextAdj]_vars

\* Construction and the budgeted traversal.
NextDist ==
    \/ \E i \in Ids, lon \in Lons : AddVertex(i, lon, 1, 1)
    \/ \E s \in Ids : \E d \in Ids \ {s} : EdgeRoom(s, d, MaxEdges) /\ AddEdge(s, d)
    \/ \E s \in Ids, m \in DistBudgets : GetConnectedWithinDist(s, m)

SpecDist == Init /\ [][NextDist]_vars

\* Construction and the budgeted traversal and the reachable-close query of one
\* seed, on the larger graphs.
NextGap ==
    \/ \E i \in GapIds, lon \in Lons : AddVertex(i, lon, 1, 1)
    \/ \E s \in GapIds : \E d \in GapIds \ {s} :
            EdgeRoom(s, d, GapMaxEdges) /\ AddEdge(s, d)
    \/ \E s \in GapIds, m \in DistBudgets : GetConnectedWithinDist(s, m)
    \/ \E s \in GapIds, m \in DistBudgets : GetCloseAirportsConnected(<<s>>, m)

SpecGap == Init /\ [][NextGap]_vars

\* The scenario's airports, routes between them, and its three queries from
\* one airport.
NextScenario ==
    \/ \E i \in Ids : AddVertex(i, ScenarioLon(i), 1, 1)
    \/ \E s \in Ids : \E d \in Ids \ {s} : EdgeRoom(s, d, MaxEdges) /\ AddEdge(s, d)
    \/ \E s \in Ids, d \in Ids : IsConnected(s, d)
    \/ \E s \in Ids, m \in ScenarioBudgets : GetCloseAirportsAdjacent(<<s>>, m)
    \/ \E s \in Ids, m \in ScenarioBudgets : GetCloseAirportsConnected(<<s>>, m)

SpecScenario == Init /\ [][NextScenario]_vars

\* Construction, add_edge(x, x) included, and the two traversals run step by
\* step; nothing else happens while a traversal runs.
NextTerm ==
    \/ \E i \in Ids, lon \in Lons : run = Idle /\ AddVertex(i, lon, 1, 1)
    \/ \E s \in Ids, d \in Ids :
            run = Idle /\ EdgeRoom(s, d, MaxEdges) /\ AddEdge(s, d)
    \/ \E s \in Ids, d \in Ids : StartIsConnected(s, d)
    \/ StepIsConnected
    \/ \E s \in Ids, m \in DistBudgets : StartConnectedWithinDist(s, m)
    \/ StepConnectedWithinDist

\* The interpreter goes on with a call that is running.
SpecTerm ==
    /\ Init /\ [][NextTerm]_vars
    /\ WF_vars(StepIsConnected) /\ WF_vars(StepConnectedWithinDist)

\* Construction and to_networkx.
NextNx ==
    \/ \E i \in Ids, lon \in Lons : AddVertex(i, lon, 1, 1)
    \/ \E s \in Ids : \E d \in Ids \ {s} : EdgeRoom(s, d, MaxEdges) /\ AddEdge(s, d)
    \/ \E order \in VertexOrders(vertices), k \in VertexLimits : ToNetworkx(order, k)

SpecNx == Init /\ [][NextNx]_vars

\* Construction and every query.
NextQueries ==
    \/ \E i \in Ids, lon \in Lons : AddVertex(i, lon, 1, 1)
    \/ \E s \in Ids : \E d \in Ids \ {s} : EdgeRoom(s, d, MaxEdges) /\ AddEdge(s, d)
    \/ \E s \in Ids, d \in Ids : IsConnected(s, d)
    \/ \E s \in Ids : GetNeighbours(s)
    \/ \E s \in Ids, d \in Ids : GetDistance(s, d)
    \/ \E s \in Ids, m \in Budgets : GetNeighbourWithinDist(s, m)
    \/ \E s \in Ids, m \in Budgets : GetConnectedWithinDist(s, m)
    \/ \E l \in SeedLists, m \in Budgets : GetCloseAirportsAdjacent(l, m)
    \/ \E l \in SeedLists, m \in Budgets : GetCloseAirportsConnected(l, m)
    \/ \E l \in CandidateLists, k \in OutSizes : RankAirports(l, k)
    \/ \E order \in VertexOrders(vertices), k \in VertexLimits : ToNetworkx(order, k)

SpecQueries == Init /\ [][NextQueries]_vars

\* Construction and the ranking; every airport on one point, so that only the
\* countries, their indices and the degrees vary.
NextRank ==
    \/ \E i \in Ids, c \in Countries, g \in GPIs : SameScore(c, g) /\ AddVertex(i, 0, c, g)
    \/ \E s \in Ids : \E d \in Ids \ {s} : EdgeRoom(s, d, MaxEdges) /\ AddEdge(s, d)
    \/ \E l \in CandidateLists, k \in OutSizes : RankAirports(l, k)

SpecRank == Init /\ [][NextRank]_vars

\* ------------------------------------------------------- properties
Neighbours(a) == Keys(vertices[a].neighbours)

\* C1: adjacency is symmetric in every state add_vertex and add_edge calls
\* (raising ones included) can reach: b is among a's neighbours iff a is among
\* b's, and both sides store the same weight.
C1_Symmetry ==
    \A a \in DOMAIN vertices :
        /\ Neighbours(a) \subseteq DOMAIN vertices
        /\ \A b \in DOMAIN vertices :
            /\ b \in Neighbours(a) <=> a \in Neighbours(b)
            /\ b \in Neighbours(a) =>
                   get_distance(vertices, a, b) = get_distance(vertices, b, a)

\* A route of non-zero length between two airports is stored, after a call of
\* add_edge that raised.
C1_Witness ==
    /\ ret.op = "add_edge" /\ ret.raised = "KeyError"
    /\ \E a, b \in DOMAIN vertices :
          a # b /\ b \in Neighbours(a) /\ get_distance(vertices, a, b) = OneDegree

\* C2: no vertex ever lists itself among its neighbours (add_edge(x, x) is
\* rejected and changes nothing).
C2_NoSelfLoop == \A a \in DOMAIN vertices : a \notin Neighbours(a)

\* C3: add_edge(a, b) on two airports that are already adjacent, in either
\* direction, raises nothing and leaves every neighbours dict (its keys, their
\* order and the weights) as it was.
C3_Idempotent ==
    [][\A a, b \in Ids :
        (/\ a \in DOMAIN vertices /\ b \in DOMAIN vertices
         /\ (b \in Neighbours(a) \/ a \in Neighbours(b))
         /\ ret'.op = "add_edge" /\ ret'.source = a /\ ret'.destination = b)
        => (vertices' = vertices /\ ret'.raised = "none")]_vars

\* add_edge(a, b) has returned although the route was there before the call:
\* b is the first of two neighbours of a, so it was stored before the other.
C3_Witness ==
    /\ ret.op = "add_edge" /\ ret.raised = "none"
    /\ ret.source # ret.destination
    /\ Len(vertices[ret.source].neighbours) = 2
    /\ vertices[ret.source].neighbours[1].id = ret.destination
    /\ vertices[ret.source].neighbours[1].w = OneDegree

\* The airports a path of routes (of any length, none included) leads to from s.
Reach(vs, s) ==
    LET RECURSIVE Grow(_)
        Grow(R) == LET R2 == R \cup UNION {Keys(vs[x].neighbours) : x \in R}
                   IN IF R2 = R THEN R ELSE Grow(R2)
    IN Grow({s})

\* The airports some path of total weight at most m leads to from s: the pairs
\* <<airport, weight used>> are grown along the routes, never past m.
WithinBudget(vs, s, m) ==
    LET Step(p) == LET ns == vs[p[1]].neighbours
                   IN {<<ns[i].id, p[2] + ns[i].w>> : i \in 1..Len(ns)}
        RECURSIVE Grow(_)
        Grow(R) ==
            LET R2 == {q \in R \cup UNION {Step(p) : p \in R} : q[2] <= m}
            IN IF R2 = R THEN R ELSE Grow(R2)
    IN IF m < 0 THEN {} ELSE {p[1] : p \in Grow({<<s, 0>>})}

IsQuery(op) == ret.op = op /\ ret.raised = "none"

\* C4: for present ids and an empty visited set, is_connected(source,
\* destination) returns True exactly when a path of routes, of length zero or
\* more, joins source to destination.
C4_ConnectedIffPath ==
    (/\ ret.op = "is_connected"
     /\ ret.source \in DOMAIN vertices /\ ret.destination \in DOMAIN vertices)
    => /\ ret.raised = "none"
       /\ ret.value <=> ret.destination \in Reach(vertices, ret.source)

\* is_connected has answered True for two airports joined only by a path of
\* two routes or more.
C4_Witness ==
    /\ IsQuery("is_connected") /\ ret.value
    /\ ret.source # ret.destination
    /\ ret.source \in DOMAIN vertices
    /\ ret.destination \notin Neighbours(ret.source)

\* C5: every id get_connected_within_dist(source, max_distance) returns, for a
\* present source, is joined to source by a path of total weight at most
\* max_distance.
C5_NoFalsePositive ==
    (ret.op = "get_connected_within_dist" /\ ret.source \in DOMAIN vertices)
    => ret.value \subseteq WithinBudget(vertices, ret.source, ret.max_distance)

\* The traversal has returned an airport that only a path of two routes of
\* non-zero length joins to the source.
C5_Witness ==
    /\ IsQuery("get_connected_within_dist")
    /\ ret.source \in DOMAIN vertices
    /\ ret.max_distance = 2 * OneDegree
    /\ \E t \in ret.value : t \notin WithinBudget(vertices, ret.source, OneDegree)

\* C6: get_connected_within_dist(source, max_distance) returns every airport
\* that some path of total weight at most max_distance joins to a present
\* source, whatever the order of the neighbours, for max_distance >= 0.
C6_Complete ==
    (/\ ret.op = "get_connected_within_dist"
     /\ ret.source \in DOMAIN vertices /\ ret.max_distance >= 0)
    => WithinBudget(vertices, ret.source, ret.max_distance) \subseteq ret.value

AllPresent(l) == \A i \in 1..Len(l) : l[i] \in DOMAIN vertices

\* C7: for a fixed list of present seeds, get_close_airports_connected with a
\* budget d1 returns a subset of what it returns with any budget d2 >= d1.
C7_ConnectedMonotone ==
    (ret.op = "get_close_airports_connected" /\ AllPresent(ret.seeds))
    => \A d2 \in DistBudgets :
          ret.max_distance <= d2 =>
            ret.value \subseteq
                get_close_airports_connected(vertices, ret.seeds, d2)

\* C8: for a fixed list of present seeds, get_close_airports_adjacent with a
\* budget d1 returns a subset of what it returns with any budget d2 >= d1.
C8_AdjacentMonotone ==
    (ret.op = "get_close_airports_adjacent" /\ AllPresent(ret.seeds))
    => /\ ret.raised = "none"
       /\ \A d2 \in Budgets :
            ret.max_distance <= d2 =>
              ret.value \subseteq
                  get_close_airports_adjacent(vertices, ret.seeds, d2)

\* The adjacent-close query has returned some airports, and a larger budget
\* gives more of them.
C8_Witness ==
    /\ IsQuery("get_close_airports_adjacent")
    /\ ret.value # {}
    /\ \E d2 \in Budgets :
          /\ ret.max_distance < d2
          /\ get_close_airports_adjacent(vertices, ret.seeds, d2) # ret.value

\* The list the specified ranking gives: the candidates grouped by country,
\* each group sorted by degree descending and cut to k, the groups taken by
\* their country's index ascending, concatenated, the whole cut to k.
RankSpecified(vs, airport_ids, k) ==
    LET keys == CountryKeys(vs, airport_ids)
        groups == [i \in 1..Len(keys) |->
                    Take(SortedByDegree(vs, CountryGroup(vs, airport_ids, keys[i])), k)]
        score == [i \in 1..Len(keys) |->
                    vs[CountryGroup(vs, airport_ids, keys[i])[1]].gpi]
    IN Take(Concat(StableSort(groups, score)), k)

\* C9: the list rank_airports returns is the one of the specified algorithm:
\* per country, that country's own candidates by degree descending, cut to
\* max_out_size; the lists concatenated in country order; the whole cut to
\* max_out_size.
C9_RankAsSpecified ==
    IsQuery("rank_airports")
    => ret.value = RankSpecified(vertices, ret.candidates, ret.max_out_size)

\* C10: of two ids rank_airports returns whose countries differ and have
\* different global peace indices, the one of the lower index comes first.
C10_PeaceOrder ==
    IsQuery("rank_airports")
    => \A i, j \in 1..Len(ret.value) :
          (/\ vertices[ret.value[i]].country # vertices[ret.value[j]].country
           /\ vertices[ret.value[i]].gpi < vertices[ret.value[j]].gpi)
          => i < j

\* C11: for candidates that are all present and max_out_size >= 0,
\* rank_airports returns a list of at most max_out_size ids (so the empty list
\* for no candidates, and for max_out_size 0).
C11_RankBound ==
    (ret.op = "rank_airports" /\ AllPresent(ret.candidates))
    => /\ ret.raised = "none"
       /\ Len(ret.value) <= ret.max_out_size

\* C12: is_connected fails with a not-found error whenever the source or the
\* destination is absent from the graph; it answers neither True nor False.
C12_NotFound ==
    (/\ ret.op = "is_connected"
     /\ (ret.source \notin DOMAIN vertices \/ ret.destination \notin DOMAIN vertices))
    => ret.raised # "none"

\* C13: a distance query that names an absent airport raises instead of
\* returning a set: get_connected_within_dist with an absent source, and the
\* two close-airports queries with an absent id anywhere among the seeds.
C13_NotFound ==
    /\ (ret.op = "get_connected_within_dist" /\ ret.source \notin DOMAIN vertices)
       => ret.raised # "none"
    /\ (/\ ret.op \in {"get_close_airports_adjacent", "get_close_airports_connected"}
        /\ ~AllPresent(ret.seeds))
       => ret.raised # "none"

\* C14: add_edge with an id that is absent raises and changes nothing (no
\* vertex appears, no neighbours dict changes); the loader passes such a row
\* over, so it never raises, and changes nothing either.
C14_AbsentEndpoint ==
    [][/\ (/\ ret'.op = "add_edge"
           /\ (\/ ret'.source \notin DOMAIN vertices
               \/ ret'.destination \notin DOMAIN vertices))
          => (ret'.raised = "KeyError" /\ vertices' = vertices)
       /\ ret'.op = "load_route"
          => /\ ret'.raised = "none"
             /\ (\/ ret'.source \notin DOMAIN vertices
                 \/ ret'.destination \notin DOMAIN vertices)
                => vertices' = vertices]_vars

\* add_edge has raised for a source that is present and has a route, and a
\* destination that is absent.
C14_Witness ==
    /\ ret.op = "add_edge" /\ ret.raised = "KeyError"
    /\ ret.source \in DOMAIN vertices
    /\ ret.destination \notin DOMAIN vertices
    /\ vertices[ret.source].neighbours # <<>>

\* C15: for present ids and fresh visited sets, is_connected(x, x) is True,
\* and is_connected(a, b) gives what is_connected(b, a) gives.
C15_ReflexiveSymmetric ==
    (/\ ret.op = "is_connected"
     /\ ret.source \in DOMAIN vertices /\ ret.destination \in DOMAIN vertices)
    => /\ ret.raised = "none"
       /\ ret.source = ret.destination => ret.value
       /\ ret.value = is_connected(vertices, ret.destination, ret.source, {}).value

\* is_connected has answered False for a source that has routes and a
\* destination that has none: the two directions walk different airports.
C15_Witness ==
    /\ IsQuery("is_connected") /\ ~ret.value
    /\ ret.source \in DOMAIN vertices /\ ret.destination \in DOMAIN vertices
    /\ vertices[ret.source].neighbours # <<>>
    /\ vertices[ret.destination].neighbours = <<>>

QueryOps ==
    {"is_connected", "get_neighbours", "get_distance", "get_neighbour_within_dist",
     "get_connected_within_dist", "get_close_airports_adjacent",
     "get_close_airports_connected", "rank_airports", "to_networkx"}

\* C16: a call of a query, whether it returns or raises, leaves the vertices,
\* their neighbours dicts and the weights as they were.
C16_QueriesReadOnly ==
    [][ret'.op \in QueryOps => vertices' = vertices]_vars

\* A query has raised on a graph that holds a route.
C16_Witness ==
    /\ ret.op \in QueryOps /\ ret.raised # "none"
    /\ \E a \in DOMAIN vertices : vertices[a].neighbours # <<>>

\* C20: to_networkx(max_vertices) returns at most max_vertices nodes, and
\* every edge it returns joins two adjacent airports and holds the weight
\* stored for them.
C20_NodeLimit ==
    ret.op = "to_networkx"
    => /\ Cardinality(ret.value.nodes) <= ret.max_vertices
       /\ \A e \in ret.value.edges :
            \E a, b \in DOMAIN vertices :
                /\ e.ends = {a, b}
                /\ b \in Neighbours(a)
                /\ e.weight = get_distance(vertices, a, b)

\* C19: the list rank_airports returns for present candidates holds no id
\* more than once.
C19_NoDuplicates ==
    IsQuery("rank_airports")
    => \A i, j \in 1..Len(ret.value) : i # j => ret.value[i] # ret.value[j]

\* The graph of the scenario: the airports A, B and C, and exactly the routes
\* A-B and B-C.
ScenarioGraph ==
    /\ DOMAIN vertices = {1, 2, 3}
    /\ Neighbours(1) = {2} /\ Neighbours(2) = {1, 3} /\ Neighbours(3) = {2}

\* C17: in the scenario's graph both routes weigh 111, is_connected(A, C) is
\* True, get_close_airports_adjacent([A], 150) is {B},
\* get_close_airports_adjacent([A], 50) is empty, and
\* get_close_airports_connected([A], 250) holds B and C.
C17_Scenario ==
    ScenarioGraph
    => /\ get_distance(vertices, 1, 2) = 111 /\ get_distance(vertices, 2, 3) = 111
       /\ (ret.op = "is_connected" /\ ret.source = 1 /\ ret.destination = 3)
          => (ret.raised = "none" /\ ret.value)
       /\ (ret.op = "get_close_airports_adjacent" /\ ret.seeds = <<1>>)
          => /\ ret.raised = "none"
             /\ ret.max_distance = 150 => ret.value = {2}
             /\ ret.max_distance = 50 => ret.value = {}
       /\ (/\ ret.op = "get_close_airports_connected" /\ ret.seeds = <<1>>
           /\ ret.max_distance = 250)
          => {2, 3} \subseteq ret.value

\* get_close_airports_connected([A], 250) has returned in the scenario's graph.
C17_Witness ==
    /\ ScenarioGraph
    /\ IsQuery("get_close_airports_connected")
    /\ ret.seeds = <<1>> /\ ret.max_distance = 250

\* The traversals run by steps return what the recursive definitions give.
StepwiseAgrees ==
    /\ ret.op = "is_connected"
       => LET r == is_connected(vertices, ret.source, ret.destination, {})
          IN ret.raised = r.raised /\ ret.value = r.value
    /\ ret.op = "get_connected_within_dist"
       => ret.value = get_connected_within_dist(vertices, ret.source,
                                                ret.max_distance)

\* C18: a traversal that has been called returns (or raises): is_connected on
\* an empty visited set, and get_connected_within_dist, on every graph, with
\* cycles, routes of weight 0 and airports that are their own neighbours.
C18_Terminates == (run.op # "none") ~> (run = Idle)

\* get_connected_within_dist has returned for a source that is its own
\* neighbour and has a route of weight 0 to another airport it returned.
C18_Witness ==
    /\ IsQuery("get_connected_within_dist")
    /\ ret.source \in DOMAIN vertices
    /\ ret.source \in Neighbours(ret.source)
    /\ \E b \in ret.value :
          /\ b # ret.source /\ b \in Neighbours(ret.source)
          /\ get_distance(vertices, ret.source, b) = 0

====
